---- MODULE Spec2Model ----
(***************************************************************************)
(* Model of the JSON Schema References extension (src/src/extension.ts):   *)
(* the `$ref` locator, the JSON Pointer parser, the navigation to a target *)
(* node, the asynchronous validation scan that publishes diagnostics, and  *)
(* the interactive lookup behind hover / go-to-definition.                 *)
(*                                                                         *)
(* Texts are TLA+ strings handled character by character (Len, SubSeq,     *)
(* \o).  A document's text is named by a key of DocText; parseTree builds  *)
(* the jsonc-parser node tree (type, offset, length, value, children) of   *)
(* that text.  The host is POSIX (path.isAbsolute tests a leading "/").    *)
(***************************************************************************)
EXTENDS Integers, Sequences, FiniteSets, TLC

VARIABLES
    text,           \* file system / editor buffers: path -> content key
    tracked,        \* documents the editor has open (open event seen, not closed)
    diagnostics,    \* the DiagnosticCollection: path -> list of findings
    scans,          \* validateDocument calls in flight: slot -> task
    rejected,       \* documents whose validateDocument promise rejected
    events,         \* number of editor events delivered so far
    edited,         \* documents that received an open, change or close event
    lastOp,         \* the last step taken (kind, document, task facts)
    lookup,         \* the resolveReference call of the provider
    ptr,            \* pointer codec exercise: path, encoded text, decoded path
    nav,            \* pointer navigation exercise
    loc             \* locator exercise

vars == <<text, tracked, diagnostics, scans, rejected, events, edited, lastOp,
          lookup, ptr, nav, loc>>

(***************************************************************************)
(* Characters and strings (JavaScript String methods used by the code).    *)
(***************************************************************************)
LowerLetters == "abcdefghijklmnopqrstuvwxyz"
UpperLetters == "ABCDEFGHIJKLMNOPQRSTUVWXYZ"
DigitChars == "0123456789"

\* the characters from..to of s (1-based, inclusive), clipped to the string
Sub(s, from, to) ==
    LET a == IF from < 1 THEN 1 ELSE from
        b == IF to > Len(s) THEN Len(s) ELSE to
    IN  IF a > b THEN "" ELSE SubSeq(s, a, b)

\* s.charAt(i - 1): "" outside the string
CharAt(s, i) == Sub(s, i, i)

CharsOf(s) == {CharAt(s, i) : i \in 1..Len(s)}

Letters == CharsOf(LowerLetters) \cup CharsOf(UpperLetters)

Digits == CharsOf(DigitChars)

IsLetter(c) == c \in Letters

IsDigit(c) == c \in Digits

WhiteSpace == {" ", "\t", "\n", "\r"}

MinOf(S) == CHOOSE x \in S : \A y \in S : x <= y

MaxOf(S) == CHOOSE x \in S : \A y \in S : y <= x

\* String.prototype.trim
trim(s) ==
    LET keep == {i \in 1..Len(s) : CharAt(s, i) \notin WhiteSpace}
    IN  IF keep = {} THEN "" ELSE Sub(s, MinOf(keep), MaxOf(keep))

\* String.prototype.indexOf for a one-character needle (0-based, -1 if absent)
indexOf(s, c) ==
    LET hits == {i \in 1..Len(s) : CharAt(s, i) = c}
    IN  IF hits = {} THEN -1 ELSE MinOf(hits) - 1

\* String.prototype.slice(from) and slice(from, to), 0-based, to exclusive
sliceFrom(s, from) == Sub(s, from + 1, Len(s))

slice(s, from, to) == Sub(s, from + 1, to)

startsWith(s, p) == Len(s) >= Len(p) /\ Sub(s, 1, Len(p)) = p

\* String.prototype.split on a one-character separator
RECURSIVE split(_, _)
split(s, c) ==
    LET i == indexOf(s, c)
    IN  IF i < 0 THEN <<s>>
        ELSE <<slice(s, 0, i)>> \o split(sliceFrom(s, i + 1), c)

\* Array.prototype.join
RECURSIVE join(_, _)
join(parts, sep) ==
    IF Len(parts) = 0 THEN ""
    ELSE IF Len(parts) = 1 THEN parts[1]
    ELSE parts[1] \o sep \o join(Tail(parts), sep)

\* The first index (1-based) of s holding a character of set stop, or Len(s)+1
FirstOf(s, stop) ==
    LET hits == {i \in 1..Len(s) : CharAt(s, i) \in stop}
    IN  IF hits = {} THEN Len(s) + 1 ELSE MinOf(hits)

\* String.prototype.toLowerCase on one character
toLowerChar(c) ==
    LET hits == {i \in 1..Len(UpperLetters) : CharAt(UpperLetters, i) = c}
    IN  IF hits = {} THEN c ELSE CharAt(LowerLetters, MinOf(hits))

(***************************************************************************)
(* vscode.Uri and node's path (POSIX), as far as resolveUri uses them.     *)
(***************************************************************************)
MkUri(scheme, authority, path) ==
    [kind |-> "uri", scheme |-> scheme, authority |-> authority, path |-> path]

\* resolveUri returning undefined
Undefined == [kind |-> "undefined", scheme |-> "", authority |-> "", path |-> ""]

\* an exception thrown out of resolveUri (vscode.Uri.parse: [UriError])
Thrown == [kind |-> "throw", scheme |-> "", authority |-> "", path |-> ""]

\* /^[a-zA-Z][a-zA-Z+\-.]*:\/\//.test(filePart)
SchemePattern(filePart) ==
    \E n \in 1..Len(filePart) :
        /\ IsLetter(CharAt(filePart, 1))
        /\ \A i \in 2..n : \/ IsLetter(CharAt(filePart, i))
                           \/ CharAt(filePart, i) \in {"+", "-", "."}
        /\ Sub(filePart, n + 1, n + 3) = "://"

\* /^[a-zA-Z]:[\\/]/.test(filePart)
DrivePattern(filePart) ==
    /\ IsLetter(CharAt(filePart, 1))
    /\ CharAt(filePart, 2) = ":"
    /\ CharAt(filePart, 3) \in {"\\", "/"}

\* path.isAbsolute on a POSIX host
isAbsolute(p) == CharAt(p, 1) = "/"

\* the Uri constructor's _referenceResolution for the file/http/https schemes
referenceResolution(scheme, path) ==
    IF scheme \in {"file", "http", "https"}
    THEN IF path = "" THEN "/"
         ELSE IF CharAt(path, 1) # "/" THEN "/" \o path ELSE path
    ELSE path

\* vscode.Uri.parse(value) of a value that matches SchemePattern: the URI
\* regular expression splits scheme, authority and path; _validateUri throws
\* when there is no authority and the path begins with "//".
UriParse(value) ==
    LET colon     == indexOf(value, ":")
        scheme    == slice(value, 0, colon)
        rest      == sliceFrom(value, colon + 3)
        aEnd      == FirstOf(rest, {"/", "?", "#"})
        authority == Sub(rest, 1, aEnd - 1)
        rest2     == Sub(rest, aEnd, Len(rest))
        pEnd      == FirstOf(rest2, {"?", "#"})
        path      == referenceResolution(scheme, Sub(rest2, 1, pEnd - 1))
    IN  IF authority = "" /\ startsWith(path, "//")
        THEN Thrown
        ELSE MkUri(scheme, authority, path)

\* vscode.Uri.file(path) on a POSIX host: a leading "//" starts a UNC authority
UriFile(path) ==
    IF startsWith(path, "//")
    THEN LET tail == sliceFrom(path, 2)
             idx  == indexOf(tail, "/")
         IN  IF idx < 0
             THEN MkUri("file", tail, "/")
             ELSE MkUri("file", slice(tail, 0, idx),
                        referenceResolution("file", sliceFrom(tail, idx)))
    ELSE MkUri("file", "", referenceResolution("file", path))

\* Uri.fsPath on a POSIX host
fsPath(uri) ==
    IF uri.authority # "" /\ Len(uri.path) > 1 /\ uri.scheme = "file"
    THEN "//" \o uri.authority \o uri.path
    ELSE IF /\ CharAt(uri.path, 1) = "/"
            /\ IsLetter(CharAt(uri.path, 2))
            /\ CharAt(uri.path, 3) = ":"
         THEN toLowerChar(CharAt(uri.path, 2)) \o sliceFrom(uri.path, 2)
         ELSE uri.path

\* path.dirname (POSIX)
dirname(p) ==
    LET ends == {i \in 1..(Len(p) - 1) :
                    /\ CharAt(p, i + 1) = "/"
                    /\ \E j \in (i + 2)..Len(p) : CharAt(p, j) # "/"}
    IN  IF p = "" THEN "."
        ELSE IF ends = {} THEN (IF isAbsolute(p) THEN "/" ELSE ".")
        ELSE IF isAbsolute(p) /\ MaxOf(ends) = 1 THEN "//"
        ELSE Sub(p, 1, MaxOf(ends))

\* path's normalizeString: drop "" and ".", let ".." remove the last segment
RECURSIVE normalizeSegments(_, _, _)
normalizeSegments(segs, acc, allowAboveRoot) ==
    IF Len(segs) = 0 THEN acc
    ELSE LET s == Head(segs)
         IN  IF s = "" \/ s = "."
             THEN normalizeSegments(Tail(segs), acc, allowAboveRoot)
             ELSE IF s = ".."
             THEN IF Len(acc) > 0 /\ acc[Len(acc)] # ".."
                  THEN normalizeSegments(Tail(segs), SubSeq(acc, 1, Len(acc) - 1),
                                         allowAboveRoot)
                  ELSE IF allowAboveRoot
                  THEN normalizeSegments(Tail(segs), Append(acc, ".."),
                                         allowAboveRoot)
                  ELSE normalizeSegments(Tail(segs), acc, allowAboveRoot)
             ELSE normalizeSegments(Tail(segs), Append(acc, s), allowAboveRoot)

\* process.cwd() of the extension host
Cwd == "/"

\* path.resolve(baseDir, filePart) (POSIX), filePart non-empty
resolve(baseDir, filePart) ==
    LET joined == IF isAbsolute(filePart) THEN filePart
                  ELSE IF baseDir = "" THEN Cwd \o "/" \o filePart
                  ELSE IF isAbsolute(baseDir) THEN baseDir \o "/" \o filePart
                  ELSE Cwd \o "/" \o baseDir \o "/" \o filePart
    IN  "/" \o join(normalizeSegments(split(joined, "/"), <<>>, FALSE), "/")

\* resolveUri(document, filePart); document is the path of the base document
\* (document.uri = Uri.file(document))
resolveUri(document, filePart) ==
    IF filePart = "" THEN UriFile(document)
    ELSE IF SchemePattern(filePart)
    THEN LET parsed == UriParse(filePart)
         IN  IF parsed.kind = "throw" THEN Thrown
             ELSE IF parsed.scheme = "file" THEN parsed ELSE Undefined
    ELSE IF isAbsolute(filePart) THEN UriFile(filePart)
    ELSE IF DrivePattern(filePart) THEN UriFile(filePart)
    ELSE UriFile(resolve(dirname(fsPath(UriFile(document))), filePart))

(***************************************************************************)
(* JSON documents.  A document text is written as the JSON value it holds  *)
(* (JStr, JNum, JArr, JObj, JProp); its text is the compact serialisation  *)
(* of that value, from which parseTree takes every node's offset and       *)
(* length.  NoText is a text in which the parser finds no value (an empty  *)
(* file), for which parseTree returns undefined.                           *)
(***************************************************************************)
JStr(s) == [type |-> "string", value |-> s, items |-> <<>>]

JNum(digits) == [type |-> "number", value |-> digits, items |-> <<>>]

JArr(items) == [type |-> "array", value |-> "", items |-> items]

JProp(key, val) == [type |-> "property", value |-> key, items |-> <<val>>]

JObj(props) == [type |-> "object", value |-> "", items |-> props]

NoText == [type |-> "none", value |-> "", items |-> <<>>]

\* length of the string literal "s" in the text (quotes, escaped \ and ")
RECURSIVE literalLength(_)
literalLength(s) ==
    IF s = "" THEN 2
    ELSE (IF CharAt(s, 1) \in {"\\", "\""} THEN 2 ELSE 1)
         + literalLength(sliceFrom(s, 1))

\* length of the text of a value
RECURSIVE textLength(_)
RECURSIVE itemsLength(_)
itemsLength(items) ==
    IF Len(items) = 0 THEN 0
    ELSE textLength(Head(items))
         + (IF Len(items) > 1 THEN 1 ELSE 0)
         + itemsLength(Tail(items))

textLength(v) ==
    CASE v.type = "string"   -> literalLength(v.value)
      [] v.type = "number"   -> Len(v.value)
      [] v.type = "property" -> literalLength(v.value) + 1 + textLength(v.items[1])
      [] v.type = "none"     -> 0
      [] OTHER               -> 2 + itemsLength(v.items)

\* a node of the jsonc-parser tree
Node(type, offset, length, value, children) ==
    [type |-> type, offset |-> offset, length |-> length, value |-> value,
     children |-> children]

\* the node tree of value v whose text starts at offset
RECURSIVE buildNode(_, _)
RECURSIVE buildChildren(_, _)
buildChildren(items, offset) ==
    IF Len(items) = 0 THEN <<>>
    ELSE <<buildNode(Head(items), offset)>>
         \o buildChildren(Tail(items), offset + textLength(Head(items)) + 1)

buildNode(v, offset) ==
    CASE v.type \in {"string", "number"} ->
            Node(v.type, offset, textLength(v), v.value, <<>>)
      [] v.type = "property" ->
            Node("property", offset, textLength(v), "",
                 << Node("string", offset, literalLength(v.value), v.value, <<>>),
                    buildNode(v.items[1], offset + literalLength(v.value) + 1) >>)
      [] OTHER ->
            Node(v.type, offset, textLength(v), "",
                 buildChildren(v.items, offset + 1))

\* the result of parseTree when the text holds no value
NoRoot == Node("undefined", 0, 0, "", <<>>)

\* the node tree of a text
buildTree(v) == IF v.type = "none" THEN NoRoot ELSE buildNode(v, 0)

\* the node reached from root by the child indices of path (1-based)
RECURSIVE NodeAt(_, _)
NodeAt(root, path) ==
    IF Len(path) = 0 THEN root
    ELSE NodeAt(root.children[Head(path)], Tail(path))

\* every node of the tree, as paths, in depth-first pre-order
RECURSIVE preorder(_, _)
RECURSIVE preorderChildren(_, _, _)
preorderChildren(node, path, i) ==
    IF i > Len(node.children) THEN <<>>
    ELSE preorder(node.children[i], Append(path, i))
         \o preorderChildren(node, path, i + 1)

preorder(node, path) == <<path>> \o preorderChildren(node, path, 1)

\* a node lookup that may find nothing
Found(path) == [found |-> TRUE, path |-> path]

NotFound == [found |-> FALSE, path |-> <<>>]

\* jsonc-parser contains(node, offset, includeRightBound)
contains(node, offset, includeRightBound) ==
    \/ offset >= node.offset /\ offset < node.offset + node.length
    \/ includeRightBound /\ offset = node.offset + node.length

\* jsonc-parser findNodeAtOffset(root, offset, includeRightBound): the first
\* child (in order) that contains the offset wins, else the node itself
RECURSIVE findNodeAtOffset(_, _, _, _)
RECURSIVE findInChildren(_, _, _, _, _)
findInChildren(node, path, offset, includeRightBound, i) ==
    IF i > Len(node.children) \/ node.children[i].offset > offset
    THEN NotFound
    ELSE LET item == findNodeAtOffset(node.children[i], Append(path, i),
                                      offset, includeRightBound)
         IN  IF item.found THEN item
             ELSE findInChildren(node, path, offset, includeRightBound, i + 1)

findNodeAtOffset(node, path, offset, includeRightBound) ==
    IF contains(node, offset, includeRightBound)
    THEN LET item == findInChildren(node, path, offset, includeRightBound, 1)
         IN  IF item.found THEN item ELSE Found(path)
    ELSE NotFound

(***************************************************************************)
(* JSON Pointer: parseJsonPointer and findTargetNode.                      *)
(***************************************************************************)
\* a pointer segment: a string or a number
StrSeg(s) == [isNumber |-> FALSE, num |-> 0, str |-> s]

NumSeg(n) == [isNumber |-> TRUE, num |-> n, str |-> ""]

\* segment.replace(/~X/g, to) for a two-character pattern "~X"
RECURSIVE replaceAll(_, _, _)
replaceAll(s, pat, to) ==
    IF Len(s) < 2 THEN s
    ELSE IF Sub(s, 1, 2) = pat THEN to \o replaceAll(sliceFrom(s, 2), pat, to)
    ELSE CharAt(s, 1) \o replaceAll(sliceFrom(s, 1), pat, to)

\* /^\d+$/.test(s)
AllDigits(s) == s # "" /\ \A i \in 1..Len(s) : IsDigit(CharAt(s, i))

\* Number(s) of an all-digit string
RECURSIVE toNumber(_)
toNumber(s) ==
    IF s = "" THEN 0
    ELSE 10 * toNumber(Sub(s, 1, Len(s) - 1))
         + (indexOf(DigitChars, CharAt(s, Len(s))))

\* the map callback of parseJsonPointer
decodeSegment(segment) ==
    LET unescaped == replaceAll(replaceAll(segment, "~1", "/"), "~0", "~")
    IN  IF AllDigits(unescaped) THEN NumSeg(toNumber(unescaped))
        ELSE StrSeg(unescaped)

RECURSIVE mapDecode(_)
mapDecode(segments) ==
    IF Len(segments) = 0 THEN <<>>
    ELSE <<decodeSegment(Head(segments))>> \o mapDecode(Tail(segments))

\* parseJsonPointer(pointer)
parseJsonPointer(pointer) ==
    IF pointer = "" THEN <<>>
    ELSE LET normalized == IF startsWith(pointer, "/") THEN sliceFrom(pointer, 1)
                           ELSE pointer
         IN  IF normalized = "" THEN <<>>
             ELSE mapDecode(split(normalized, "/"))

\* the properties of an object node whose key is segment and that have a value
PropertyHits(node, segment) ==
    {i \in 1..Len(node.children) :
        /\ Len(node.children[i].children) = 2
        /\ node.children[i].children[1].value = segment}

\* jsonc-parser findNodeAtLocation(root, path): a string segment selects a
\* property of an object, a number segment an element of an array
RECURSIVE findNodeAtLocation(_, _, _)
findNodeAtLocation(root, path, segments) ==
    IF Len(segments) = 0 THEN Found(path)
    ELSE LET node    == NodeAt(root, path)
             segment == Head(segments)
         IN  IF ~segment.isNumber
             THEN IF node.type # "object" \/ PropertyHits(node, segment.str) = {}
                  THEN NotFound
                  ELSE findNodeAtLocation(root,
                          path \o <<MinOf(PropertyHits(node, segment.str)), 2>>,
                          Tail(segments))
             ELSE IF node.type # "array" \/ segment.num >= Len(node.children)
                  THEN NotFound
                  ELSE findNodeAtLocation(root, Append(path, segment.num + 1),
                                          Tail(segments))

(***************************************************************************)
(* The files of the workspace and the texts they can hold.                 *)
(***************************************************************************)
DocA == "/w/a.json"

DocB == "/w/b.json"

DocRef == "/w/$ref"

Paths == {DocA, DocB, DocRef}

\* the content key of a file that does not exist
Missing == "missing"

\* {"title":"T","defs":{"Foo":{"type":"string"}},"list":[1,2],"0":{"a/b":1},"m~n":2}
SchemaText ==
    JObj(<< JProp("title", JStr("T")),
            JProp("defs", JObj(<<JProp("Foo", JObj(<<JProp("type", JStr("string"))>>))>>)),
            JProp("list", JArr(<<JNum("1"), JNum("2")>>)),
            JProp("0", JObj(<<JProp("a/b", JNum("1"))>>)),
            JProp("m~n", JNum("2")) >>)

\* {"defs":{"Foo":{"title":"F"}},"q":{"$ref":"b.json#/defs/Foo"},
\*  "p":{"$ref":"#/defs/Foo"},"r":{"$ref":"http://h/s.json"},"s":{"$ref":"  "}}
LocalText ==
    JObj(<< JProp("defs", JObj(<<JProp("Foo", JObj(<<JProp("title", JStr("F"))>>))>>)),
            JProp("q", JObj(<<JProp("$ref", JStr("b.json#/defs/Foo"))>>)),
            JProp("p", JObj(<<JProp("$ref", JStr("#/defs/Foo"))>>)),
            JProp("r", JObj(<<JProp("$ref", JStr("http://h/s.json"))>>)),
            JProp("s", JObj(<<JProp("$ref", JStr("  "))>>)) >>)

\* {"t":{"$ref":7},"u":[{"$ref":"b.json"}],"v":{"$ref":" #/nope"},"w":{"x":"$ref"},
\*  "y":{"$ref":"/w/b.json#/"}}
MixedText ==
    JObj(<< JProp("t", JObj(<<JProp("$ref", JNum("7"))>>)),
            JProp("u", JArr(<<JObj(<<JProp("$ref", JStr("b.json"))>>)>>)),
            JProp("v", JObj(<<JProp("$ref", JStr(" #/nope"))>>)),
            JProp("w", JObj(<<JProp("x", JStr("$ref"))>>)),
            JProp("y", JObj(<<JProp("$ref", JStr("/w/b.json#/"))>>)) >>)

\* {"a":{"$ref":"gone.json"},"b":{"$ref":"file:////w/b.json"}}
MalformedText ==
    JObj(<< JProp("a", JObj(<<JProp("$ref", JStr("gone.json"))>>)),
            JProp("b", JObj(<<JProp("$ref", JStr("file:////w/b.json"))>>)) >>)

\* the texts a file can hold, by content key
Contents == {"blank", "schema", "local", "mixed", "malformed"}

\* document.getText() of a file holding content key
DocText(key) ==
    CASE key = "schema"    -> SchemaText
      [] key = "local"     -> LocalText
      [] key = "mixed"     -> MixedText
      [] key = "malformed" -> MalformedText
      [] OTHER             -> NoText

\* the parse trees of the texts and the pre-order walks of their nodes
ParsedTrees == [key \in Contents |-> buildTree(DocText(key))]

WalkOrders == [key \in Contents |-> preorder(ParsedTrees[key], <<>>)]

\* parseTree(document.getText()) of jsonc-parser, for the text of content key
parseTree(key) == IF key \in Contents THEN ParsedTrees[key] ELSE NoRoot

\* the nodes of the tree of key in the order findAllRefs visits them
walkOrder(key) == IF key \in Contents THEN WalkOrders[key] ELSE <<>>

\* findTargetNode(document, pointerSegments); key names the text of
\* the target document
findTargetNode(key, pointerSegments) ==
    LET root == parseTree(key)
    IN  IF root.type = "undefined" THEN NotFound
        ELSE IF Len(pointerSegments) = 0 THEN Found(<<>>)
        ELSE LET located == findNodeAtLocation(root, <<>>, pointerSegments)
             IN  IF ~located.found THEN NotFound
                 ELSE IF /\ NodeAt(root, located.path).type = "property"
                         /\ Len(NodeAt(root, located.path).children) >= 2
                      THEN Found(Append(located.path, 2))
                      ELSE located

\* vscode.workspace.openTextDocument(uri): the content key of the file the URI
\* names, Missing when the load fails (no such file)
openTextDocument(fs, uri) ==
    IF uri.scheme = "file" /\ fsPath(uri) \in DOMAIN fs
    THEN fs[fsPath(uri)] ELSE Missing

(***************************************************************************)
(* The validation scan: validateDocument, findAllRefs, validateReference.  *)
(***************************************************************************)
\* a vscode.Diagnostic: the range of the `$ref` value node and the message
Diagnostic(node, message) ==
    [offset |-> node.offset, length |-> node.length, message |-> message]

\* trimmed reference text split at the first "#"
filePartOf(refValue) ==
    LET trimmed   == trim(refValue)
        hashIndex == indexOf(trimmed, "#")
    IN  IF hashIndex >= 0 THEN slice(trimmed, 0, hashIndex) ELSE trimmed

pointerPartOf(refValue) ==
    LET trimmed   == trim(refValue)
        hashIndex == indexOf(trimmed, "#")
    IN  IF hashIndex >= 0 THEN sliceFrom(trimmed, hashIndex + 1) ELSE ""

\* findAllRefs: node.type === 'property' && node.children?.[0]?.value === '$ref'
IsRefProperty(node) ==
    /\ node.type = "property"
    /\ Len(node.children) >= 1
    /\ node.children[1].value = "$ref"

\* findAllRefs: the value node is a string whose trimmed value is not empty
NeedsValidation(node) ==
    /\ IsRefProperty(node)
    /\ Len(node.children) >= 2
    /\ node.children[2].type = "string"
    /\ trim(node.children[2].value) # ""

\* the outcome of running a scan up to its next suspension
Outcome(state, pos, uri, diags) ==
    [state |-> state, pos |-> pos, uri |-> uri, diags |-> diags]

\* findAllRefs from the pos-th node of the pre-order walk, up to the first
\* `await openTextDocument` (state "await"), the end of the walk ("done") or
\* an exception thrown by resolveUri ("throw")
RECURSIVE walk(_, _, _, _, _)
walk(document, root, order, pos, diags) ==
    IF pos > Len(order) THEN Outcome("done", pos, Undefined, diags)
    ELSE LET node == NodeAt(root, order[pos])
         IN  IF ~NeedsValidation(node)
             THEN walk(document, root, order, pos + 1, diags)
             ELSE LET valueNode == node.children[2]
                      refValue  == valueNode.value
                      targetUri == resolveUri(document, filePartOf(refValue))
                  IN  IF targetUri.kind = "throw"
                      THEN Outcome("throw", pos, Thrown, diags)
                      ELSE IF targetUri.kind = "undefined"
                      THEN walk(document, root, order, pos + 1,
                                Append(diags, Diagnostic(valueNode,
                                    "Cannot resolve reference: \"" \o refValue \o "\"")))
                      ELSE Outcome("await", pos, targetUri, diags)

\* a variant of afterLoad without the `if (pointerPart)` guard of line 165
afterLoadAlwaysNavigates(valueNode, loaded, diags) ==
    LET refValue    == valueNode.value
        filePart    == filePartOf(refValue)
        pointerPart == pointerPartOf(refValue)
    IN  IF loaded = Missing
        THEN Append(diags, Diagnostic(valueNode,
                 "File not found: \""
                 \o (IF filePart # "" THEN filePart ELSE "current file") \o "\""))
        ELSE IF ~findTargetNode(loaded, parseJsonPointer(pointerPart)).found
        THEN Append(diags, Diagnostic(valueNode,
                 "Invalid JSON pointer: \"#" \o pointerPart \o "\""))
        ELSE diags

\* validateReference after `await openTextDocument`: loaded is the content key
\* of the target (Missing when the load failed)
afterLoad(valueNode, loaded, diags) ==
    LET refValue    == valueNode.value
        filePart    == filePartOf(refValue)
        pointerPart == pointerPartOf(refValue)
    IN  IF loaded = Missing
        THEN Append(diags, Diagnostic(valueNode,
                 "File not found: \""
                 \o (IF filePart # "" THEN filePart ELSE "current file") \o "\""))
        ELSE IF /\ pointerPart # ""
                /\ ~findTargetNode(loaded, parseJsonPointer(pointerPart)).found
        THEN Append(diags, Diagnostic(valueNode,
                 "Invalid JSON pointer: \"#" \o pointerPart \o "\""))
        ELSE diags

\* validateDocument from its start: parse, then walk
startScan(document, key) ==
    LET root == parseTree(key)
    IN  IF root.type = "undefined" THEN Outcome("done", 0, Undefined, <<>>)
        ELSE walk(document, root, walkOrder(key), 1, <<>>)

\* a suspended validateDocument resumed by the completion of its load
resumeScan(task, fs) ==
    LET root  == parseTree(task.root)
        order == walkOrder(task.root)
        node  == NodeAt(root, order[task.pos])
    IN  walk(task.doc, root, order, task.pos + 1,
             afterLoad(node.children[2], openTextDocument(fs, task.uri), task.diags))

\* validateReference run against one state fs of the file system, from its
\* call to its return: the findings it pushes, or the exception it throws
validateReference(document, valueNode, fs) ==
    LET targetUri == resolveUri(document, filePartOf(valueNode.value))
    IN  IF targetUri.kind = "throw" THEN Outcome("throw", 0, Thrown, <<>>)
        ELSE IF targetUri.kind = "undefined"
        THEN Outcome("done", 0, Undefined,
                 <<Diagnostic(valueNode,
                     "Cannot resolve reference: \"" \o valueNode.value \o "\"")>>)
        ELSE Outcome("done", 0, targetUri,
                 afterLoad(valueNode, openTextDocument(fs, targetUri), <<>>))

(***************************************************************************)
(* The interactive lookup: resolveReference of JsonRefNavigationProvider.  *)
(***************************************************************************)
\* getRefNodeAtPosition(document, position); key names the document's text
getRefNodeAtPosition(key, offset) ==
    LET root == parseTree(key)
    IN  IF root.type = "undefined" THEN NotFound
        ELSE LET at == findNodeAtOffset(root, <<>>, offset, TRUE)
             IN  IF ~at.found \/ NodeAt(root, at.path).type # "string"
                 THEN NotFound
                 ELSE IF Len(at.path) = 0
                 THEN NotFound
                 ELSE LET propertyNode ==
                              NodeAt(root, SubSeq(at.path, 1, Len(at.path) - 1))
                      IN  IF propertyNode.type # "property" THEN NotFound
                          ELSE IF propertyNode.children[1].value # "$ref"
                          THEN NotFound
                          ELSE at

\* the value of a string property `key` of an object node, as a sequence of
\* zero or one strings; later duplicates overwrite earlier ones
stringProperty(targetNode, key) ==
    LET hits == {i \in 1..Len(targetNode.children) :
                    /\ targetNode.children[i].type = "property"
                    /\ Len(targetNode.children[i].children) >= 2
                    /\ targetNode.children[i].children[1].value = key
                    /\ targetNode.children[i].children[2].type = "string"}
    IN  IF hits = {} THEN <<>>
        ELSE <<targetNode.children[MaxOf(hits)].children[2].value>>

\* the strings of an array node joined with " | " (metadata.type of an array)
RECURSIVE stringElements(_)
stringElements(children) ==
    IF Len(children) = 0 THEN <<>>
    ELSE (IF Head(children).type = "string" THEN <<Head(children).value>> ELSE <<>>)
         \o stringElements(Tail(children))

\* the `type` case of extractSchemaMetadata, walking the properties in order
RECURSIVE typeMetadata(_, _)
typeMetadata(properties, acc) ==
    IF Len(properties) = 0 THEN acc
    ELSE LET property == Head(properties)
             isType   == /\ property.type = "property"
                         /\ Len(property.children) >= 2
                         /\ property.children[1].value = "type"
             valueNode == property.children[2]
         IN  IF ~isType THEN typeMetadata(Tail(properties), acc)
             ELSE IF valueNode.type = "string"
             THEN typeMetadata(Tail(properties), <<valueNode.value>>)
             ELSE IF /\ valueNode.type = "array"
                     /\ Len(stringElements(valueNode.children)) > 0
             THEN typeMetadata(Tail(properties),
                               <<join(stringElements(valueNode.children), " | ")>>)
             ELSE typeMetadata(Tail(properties), acc)

NoMetadata == [title |-> <<>>, description |-> <<>>, type |-> <<>>]

\* extractSchemaMetadata(targetNode)
extractSchemaMetadata(targetNode) ==
    IF targetNode.type # "object" THEN NoMetadata
    ELSE [title       |-> stringProperty(targetNode, "title"),
          description |-> stringProperty(targetNode, "description"),
          type        |-> typeMetadata(targetNode.children, <<>>)]

\* what resolveReference returns or throws
LookupResult(kind, targetUri, targetOffset, targetLength, metadata, pointerDisplay) ==
    [kind |-> kind, targetUri |-> targetUri, targetOffset |-> targetOffset,
     targetLength |-> targetLength, metadata |-> metadata,
     pointerDisplay |-> pointerDisplay]

\* resolveReference returning undefined
None == LookupResult("none", Undefined, 0, 0, NoMetadata, "")

\* resolveReference rejecting with the exception of resolveUri
LookupThrown == LookupResult("throw", Thrown, 0, 0, NoMetadata, "")

\* a variant of lookupAfterLoad that ignores the pointer part
lookupAfterLoadAtRoot(refValue, targetUri, loaded) ==
    LET pointerPart == pointerPartOf(refValue)
        targetNode  == findTargetNode(loaded, <<>>)
        node        == NodeAt(parseTree(loaded), targetNode.path)
    IN  IF loaded = Missing THEN None
        ELSE IF ~targetNode.found THEN None
        ELSE LookupResult("resolved", targetUri, node.offset, node.length,
                          extractSchemaMetadata(node),
                          IF pointerPart # "" THEN "#" \o pointerPart ELSE "")

\* resolveTargetDocument after `await openTextDocument`
lookupAfterLoad(refValue, targetUri, loaded) ==
    LET pointerPart == pointerPartOf(refValue)
        targetNode  == findTargetNode(loaded, parseJsonPointer(pointerPart))
        node        == NodeAt(parseTree(loaded), targetNode.path)
    IN  IF loaded = Missing THEN None
        ELSE IF ~targetNode.found THEN None
        ELSE LookupResult("resolved", targetUri, node.offset, node.length,
                          extractSchemaMetadata(node),
                          IF pointerPart # "" THEN "#" \o pointerPart ELSE "")

\* the state of the provider's resolveReference call
Lookup(pc, doc, offset, refValue, nodeOffset, nodeLength, uri, result) ==
    [pc |-> pc, doc |-> doc, offset |-> offset, refValue |-> refValue,
     nodeOffset |-> nodeOffset, nodeLength |-> nodeLength, uri |-> uri,
     result |-> result]

NoLookup == Lookup("idle", "", 0, "", 0, 0, Undefined, None)

\* resolveReference(document, position) up to `await openTextDocument`
startLookup(document, key, offset) ==
    LET at   == getRefNodeAtPosition(key, offset)
        node == NodeAt(parseTree(key), at.path)
        uri  == resolveUri(document, filePartOf(node.value))
    IN  IF ~at.found
        THEN Lookup("done", document, offset, "", 0, 0, Undefined, None)
        ELSE IF trim(node.value) = ""
        THEN Lookup("done", document, offset, node.value, node.offset,
                    node.length, Undefined, None)
        ELSE IF uri.kind = "throw"
        THEN Lookup("done", document, offset, node.value, node.offset,
                    node.length, Thrown, LookupThrown)
        ELSE IF uri.kind = "undefined"
        THEN Lookup("done", document, offset, node.value, node.offset,
                    node.length, Undefined, None)
        ELSE Lookup("await", document, offset, node.value, node.offset,
                    node.length, uri, None)

\* startScan and startLookup depend on the document and its text alone: their
\* values, computed once
ScanStarts == [d \in Paths |-> [key \in Contents |-> startScan(d, key)]]

LookupStarts ==
    [d \in Paths |-> [key \in Contents |->
        [offset \in 0..parseTree(key).length |-> startLookup(d, key, offset)]]]

(***************************************************************************)
(* The extension as a state machine: editor events, scans suspended at     *)
(* their loads, and the provider's lookups.                                *)
(***************************************************************************)
\* the most editor events (open, change, close, hover) of one run
MaxEvents == 2

\* the most validateDocument calls suspended at the same time
MaxScans == 2

Slots == 1..MaxScans

Task(doc, root, pos, uri, diags, clean) ==
    [active |-> TRUE, doc |-> doc, root |-> root, pos |-> pos, uri |-> uri,
     diags |-> diags, clean |-> clean]

Idle == [active |-> FALSE, doc |-> "", root |-> "", pos |-> 0, uri |-> Undefined,
         diags |-> <<>>, clean |-> TRUE]

Op(kind, doc, root, completed, clean) ==
    [kind |-> kind, doc |-> doc, root |-> root, completed |-> completed,
     clean |-> clean]

\* a variant of published that also writes the findings gathered so far
publishedAtEverySuspension(collection, document, outcome) ==
    [collection EXCEPT ![document] = outcome.diags]

\* diagnosticCollection.set(document.uri, diagnostics), the last statement of
\* validateDocument: only a scan that ran to its end publishes
published(collection, document, outcome) ==
    IF outcome.state = "done"
    THEN [collection EXCEPT ![document] = outcome.diags]
    ELSE collection

\* the effect of a validateDocument call that ran up to outcome; pending are
\* the other calls in flight
settle(kind, document, key, outcome, clean, pending) ==
    /\ outcome.state = "await" => \E s \in Slots : ~pending[s].active
    /\ diagnostics' = published(diagnostics, document, outcome)
    /\ scans' = IF outcome.state = "await"
                THEN [pending EXCEPT
                        ![MinOf({s \in Slots : ~pending[s].active})] =
                            Task(document, key, outcome.pos, outcome.uri,
                                 outcome.diags, clean)]
                ELSE pending
    /\ rejected' = IF outcome.state = "throw" THEN rejected \cup {document}
                   ELSE rejected
    /\ lastOp' = Op(kind, document, key, outcome.state = "done", clean)

\* onDidOpenTextDocument
Open(d) ==
    /\ events < MaxEvents
    /\ d \notin tracked
    /\ text[d] # Missing
    /\ events' = events + 1
    /\ edited' = edited \cup {d}
    /\ tracked' = tracked \cup {d}
    /\ settle("open", d, text[d], ScanStarts[d][text[d]], TRUE, scans)
    /\ UNCHANGED <<text, lookup, ptr, nav, loc>>

\* onDidChangeTextDocument: the text of d becomes the text of key c
Change(d, c) ==
    /\ events < MaxEvents
    /\ d \in tracked
    /\ c # text[d]
    /\ events' = events + 1
    /\ edited' = edited \cup {d}
    /\ text' = [text EXCEPT ![d] = c]
    /\ settle("change", d, c, ScanStarts[d][c], TRUE,
              [s \in Slots |-> [scans[s] EXCEPT !.clean = FALSE]])
    /\ UNCHANGED <<tracked, lookup, ptr, nav, loc>>

\* onDidCloseTextDocument
Close(d) ==
    /\ events < MaxEvents
    /\ d \in tracked
    /\ events' = events + 1
    /\ edited' = edited \cup {d}
    /\ tracked' = tracked \ {d}
    /\ diagnostics' = [diagnostics EXCEPT ![d] = <<>>]
    /\ lastOp' = Op("close", d, text[d], FALSE, TRUE)
    /\ UNCHANGED <<text, scans, rejected, lookup, ptr, nav, loc>>

\* the load awaited by the scan in slot s completes
LoadComplete(s) ==
    /\ scans[s].active
    /\ settle("load", scans[s].doc, scans[s].root, resumeScan(scans[s], text),
              scans[s].clean, [scans EXCEPT ![s] = Idle])
    /\ UNCHANGED <<text, tracked, events, edited, lookup, ptr, nav, loc>>

\* provideHover / provideDefinition at offset of document d
LookupStart(d, offset) ==
    /\ events < MaxEvents
    /\ d \in tracked
    /\ lookup.pc # "await"
    /\ events' = events + 1
    /\ lookup' = LookupStarts[d][text[d]][offset]
    /\ lastOp' = Op("lookup", d, text[d], FALSE, TRUE)
    /\ UNCHANGED <<text, tracked, diagnostics, scans, rejected, edited, ptr, nav, loc>>

\* the load awaited by the lookup completes
LookupLoad ==
    /\ lookup.pc = "await"
    /\ lookup' = [lookup EXCEPT
                    !.pc = "done",
                    !.result = lookupAfterLoad(lookup.refValue, lookup.uri,
                                               openTextDocument(text, lookup.uri))]
    /\ lastOp' = Op("lookup", lookup.doc, text[lookup.doc], FALSE, TRUE)
    /\ UNCHANGED <<text, tracked, diagnostics, scans, rejected, events, edited, ptr,
                   nav, loc>>

\* the cursor offsets of a document: every offset of its text
Offsets(key) == 0..parseTree(key).length

\* the cursor offsets hovered while scans run: one inside the key and one
\* inside the value of every `$ref` property, and the start of the text
RefOffsets(key) ==
    LET root  == parseTree(key)
        order == walkOrder(key)
        refs  == {i \in 1..Len(order) : IsRefProperty(NodeAt(root, order[i]))}
    IN  {0} \cup {NodeAt(root, Append(order[i], j)).offset + 1 :
                     i \in refs, j \in {1, 2}}

HoverOffsets == [key \in Contents \cup {Missing} |-> RefOffsets(key)]

\* the documents the editor opens and edits
Docs == {DocA, DocB}

\* a pointer path on its way through the codec
Codec(pc, path, encoded, decoded) ==
    [pc |-> pc, path |-> path, encoded |-> encoded, decoded |-> decoded]

NoCodec == Codec("idle", <<>>, "", <<>>)

\* a pointer on its way through navigation in the target document doc: at is
\* the place in the tree that the pointer text was written for
Navigation(pc, doc, at, pointer, segments, target, findings, result) ==
    [pc |-> pc, doc |-> doc, at |-> at, pointer |-> pointer,
     segments |-> segments, target |-> target, findings |-> findings,
     result |-> result]

NoNavigation == Navigation("idle", "", <<>>, "", <<>>, NotFound, <<>>, None)

\* a file part on its way through the locator
Location(pc, base, filePart, result) ==
    [pc |-> pc, base |-> base, filePart |-> filePart, result |-> result]

NoLocation == Location("idle", "", "", Undefined)

\* no document is open and nothing is in flight
Dormant ==
    /\ text = [p \in Paths |-> Missing]
    /\ tracked = {}
    /\ diagnostics = [p \in Paths |-> <<>>]
    /\ scans = [s \in Slots |-> Idle]
    /\ rejected = {}
    /\ events = 0
    /\ edited = {}
    /\ lastOp = Op("init", "", "", FALSE, TRUE)
    /\ lookup = NoLookup

Init ==
    /\ text \in {fs \in [Paths -> Contents \cup {Missing}] :
                    /\ fs[DocA] \in Contents
                    /\ fs[DocB] \in {Missing, "schema", "blank"}
                    /\ fs[DocRef] = Missing}
    /\ tracked = {}
    /\ diagnostics = [p \in Paths |-> <<>>]
    /\ scans = [s \in Slots |-> Idle]
    /\ rejected = {}
    /\ events = 0
    /\ edited = {}
    /\ lastOp = Op("init", "", "", FALSE, TRUE)
    /\ lookup = NoLookup
    /\ ptr = NoCodec
    /\ nav = NoNavigation
    /\ loc = NoLocation

Next ==
    \/ \E d \in Docs : Open(d)
    \/ \E d \in Docs, c \in Contents : Change(d, c)
    \/ \E d \in Docs : Close(d)
    \/ \E s \in Slots : LoadComplete(s)
    \/ \E d \in Docs : \E offset \in HoverOffsets[text[d]] : LookupStart(d, offset)
    \/ LookupLoad

Spec == Init /\ [][Next]_vars

(***************************************************************************)
(* The lookup alone, over every state of the file system and every cursor  *)
(* offset of the first document: the documents are open, no text changes.  *)
(***************************************************************************)
InitLookup ==
    /\ text \in {fs \in [Paths -> Contents \cup {Missing}] :
                    /\ fs[DocA] # Missing
                    /\ fs[DocB] \in {Missing, "schema", "blank"}
                    /\ fs[DocRef] \in {Missing, "schema", "blank"}}
    /\ tracked = {d \in Docs : text[d] # Missing}
    /\ diagnostics = [p \in Paths |-> <<>>]
    /\ scans = [s \in Slots |-> Idle]
    /\ rejected = {}
    /\ events = 0
    /\ edited = {}
    /\ lastOp = Op("init", "", "", FALSE, TRUE)
    /\ lookup = NoLookup
    /\ ptr = NoCodec
    /\ nav = NoNavigation
    /\ loc = NoLocation

NextLookup ==
    \/ \E offset \in Offsets(text[DocA]) : LookupStart(DocA, offset)
    \/ LookupLoad

SpecLookup == InitLookup /\ [][NextLookup]_vars

(***************************************************************************)
(* The pointer parser alone: a pointer path is written out as pointer text *)
(* and the text is parsed back.                                            *)
(***************************************************************************)
MaxPathLen == 2

\* the decimal text of a natural number
RECURSIVE natToString(_)
natToString(n) ==
    IF n < 10 THEN CharAt(DigitChars, n + 1)
    ELSE natToString(n \div 10) \o CharAt(DigitChars, (n % 10) + 1)

\* every ch of s replaced by to
RECURSIVE replaceChar(_, _, _)
replaceChar(s, ch, to) ==
    IF s = "" THEN ""
    ELSE (IF CharAt(s, 1) = ch THEN to ELSE CharAt(s, 1))
         \o replaceChar(sliceFrom(s, 1), ch, to)

\* the reference token of a segment: `~` becomes `~0`, then `/` becomes `~1`
escape(segment) ==
    IF segment.isNumber THEN natToString(segment.num)
    ELSE replaceChar(replaceChar(segment.str, "~", "~0"), "/", "~1")

\* the pointer text of a path: every token prefixed by `/`
RECURSIVE tokens(_)
tokens(path) ==
    IF Len(path) = 0 THEN <<>>
    ELSE <<escape(Head(path))>> \o tokens(Tail(path))

encode(path) == "/" \o join(tokens(path), "/")

SegmentPool ==
    {StrSeg(t) : t \in {"", "a", "0", "12", "01", "~", "/", "a/b", "m~n", "~1"}}
    \cup {NumSeg(n) : n \in {0, 7, 12}}

PointerPaths ==
    UNION {[1..n -> SegmentPool] : n \in 0..MaxPathLen}

InitCodec ==
    /\ Dormant
    /\ ptr \in {Codec("path", p, "", <<>>) : p \in PointerPaths}
    /\ nav = NoNavigation
    /\ loc = NoLocation

EncodePath ==
    /\ ptr.pc = "path"
    /\ ptr' = Codec("text", ptr.path, encode(ptr.path), <<>>)
    /\ UNCHANGED <<text, tracked, diagnostics, scans, rejected, events, edited,
                   lastOp, lookup, nav, loc>>

DecodePointer ==
    /\ ptr.pc = "text"
    /\ ptr' = Codec("decoded", ptr.path, ptr.encoded,
                    parseJsonPointer(ptr.encoded))
    /\ UNCHANGED <<text, tracked, diagnostics, scans, rejected, events, edited,
                   lastOp, lookup, nav, loc>>

NextCodec == EncodePath \/ DecodePointer

SpecCodec == InitCodec /\ [][NextCodec]_vars

(***************************************************************************)
(* Pointer resolution alone: a pointer is written by descending a target   *)
(* document from its root, one existing key or index at a time, and is     *)
(* then resolved as the scan and the lookup resolve it.                    *)
(***************************************************************************)
\* the contents that parse to a tree
Parsable == {key \in Contents : parseTree(key).type # "undefined"}

InitNavigate ==
    /\ Dormant
    /\ ptr = NoCodec
    /\ nav \in {Navigation("descend", key, <<>>, "", <<>>, NotFound, <<>>, None) :
                  key \in Parsable}
    /\ loc = NoLocation

\* one more reference token: the key of the i-th property of the current
\* object, or the index of the i-th element of the current array
Descend(i) ==
    LET node  == NodeAt(parseTree(nav.doc), nav.at)
        child == node.children[i]
    IN  /\ nav.pc = "descend"
        /\ node.type \in {"object", "array"}
        /\ i \in 1..Len(node.children)
        /\ node.type = "object" => Len(child.children) = 2
        /\ nav' = IF node.type = "object"
                  THEN [nav EXCEPT
                           !.at = nav.at \o <<i, 2>>,
                           !.pointer = nav.pointer \o "/"
                               \o escape(StrSeg(child.children[1].value))]
                  ELSE [nav EXCEPT
                           !.at = Append(nav.at, i),
                           !.pointer = nav.pointer \o "/" \o natToString(i - 1)]
        /\ UNCHANGED <<text, tracked, diagnostics, scans, rejected, events,
                       edited, lastOp, lookup, ptr, loc>>

\* parseJsonPointer(pointerPart)
ParsePointer ==
    /\ nav.pc = "descend"
    /\ nav' = [nav EXCEPT !.pc = "parsed",
                          !.segments = parseJsonPointer(nav.pointer)]
    /\ UNCHANGED <<text, tracked, diagnostics, scans, rejected, events, edited,
                   lastOp, lookup, ptr, loc>>

\* findTargetNode on the loaded target, then what the scan records and what
\* the lookup returns for the reference "b.json#<pointer>"
ResolvePointer ==
    LET refValue  == "b.json#" \o nav.pointer
        valueNode == Node("string", 0, Len(refValue) + 2, refValue, <<>>)
    IN  /\ nav.pc = "parsed"
        /\ nav' = [nav EXCEPT
                      !.pc = "resolved",
                      !.target = findTargetNode(nav.doc, nav.segments),
                      !.findings = afterLoad(valueNode, nav.doc, <<>>),
                      !.result = lookupAfterLoad(refValue, UriFile(DocB), nav.doc)]
        /\ UNCHANGED <<text, tracked, diagnostics, scans, rejected, events,
                       edited, lastOp, lookup, ptr, loc>>

MaxChildren == 5

NextNavigate ==
    \/ \E i \in 1..MaxChildren : Descend(i)
    \/ ParsePointer
    \/ ResolvePointer

SpecNavigate == InitNavigate /\ [][NextNavigate]_vars

(***************************************************************************)
(* The locator alone, over file parts of every form.                       *)
(***************************************************************************)
Bases == {DocA, "/x.json", "/w/d/c.json"}

Prefixes ==
    {"", "file://", "file:///", "http://h", "ftp://", "a+b://", "/", "C:\\",
     "c:/", "./", "../"}

Tails == {"", "b.json", "w/b.json", "/w/b.json", "d/../b.json"}

FileParts == {p \o t : p \in Prefixes, t \in Tails}

InitLocate ==
    /\ Dormant
    /\ ptr = NoCodec
    /\ nav = NoNavigation
    /\ loc \in {Location("start", b, f, Undefined) : b \in Bases, f \in FileParts}

Locate ==
    /\ loc.pc = "start"
    /\ loc' = Location("located", loc.base, loc.filePart,
                       resolveUri(loc.base, loc.filePart))
    /\ UNCHANGED <<text, tracked, diagnostics, scans, rejected, events, edited,
                   lastOp, lookup, ptr, nav>>

NextLocate == Locate

SpecLocate == InitLocate /\ [][NextLocate]_vars

(***************************************************************************)
(* Properties of the scan (specification Spec).                            *)
(***************************************************************************)
\* every node of a tree, as the set of its paths
RECURSIVE NodePaths(_)
NodePaths(node) ==
    {<<>>} \cup UNION {{<<i>> \o p : p \in NodePaths(node.children[i])} :
                         i \in 1..Len(node.children)}

\* the value nodes of the `$ref` properties of the text of key whose value is
\* a non-blank string
RefValuePaths(key) ==
    {p \in NodePaths(parseTree(key)) :
        /\ Len(p) >= 1
        /\ p[Len(p)] = 2
        /\ NodeAt(parseTree(key), SubSeq(p, 1, Len(p) - 1)).type = "property"
        /\ NodeAt(parseTree(key), Append(SubSeq(p, 1, Len(p) - 1), 1)).value = "$ref"
        /\ NodeAt(parseTree(key), p).type = "string"
        /\ trim(NodeAt(parseTree(key), p).value) # ""}

\* the kind of a finding: its message up to the colon
KindOf(diagnostic) == slice(diagnostic.message, 0, indexOf(diagnostic.message, ":"))

\* a list of findings as <<offset of the `$ref` value, kind>> pairs
RECURSIVE Kinds(_)
Kinds(diags) ==
    IF Len(diags) = 0 THEN <<>>
    ELSE <<[offset |-> Head(diags).offset, kind |-> KindOf(Head(diags))]>>
         \o Kinds(Tail(diags))

\* the finding the precedence of the scan gives one reference, for the file
\* system fs: a set of zero or one <<offset, kind>> pairs
ClaimedFinding(document, valueNode, fs) ==
    LET located == resolveUri(document, filePartOf(valueNode.value))
        loaded  == openTextDocument(fs, located)
        pointer == pointerPartOf(valueNode.value)
    IN  IF located.kind = "undefined"
        THEN {[offset |-> valueNode.offset, kind |-> "Cannot resolve reference"]}
        ELSE IF located.kind = "uri" /\ loaded = Missing
        THEN {[offset |-> valueNode.offset, kind |-> "File not found"]}
        ELSE IF /\ located.kind = "uri"
                /\ pointer # ""
                /\ ~findTargetNode(loaded, parseJsonPointer(pointer)).found
        THEN {[offset |-> valueNode.offset, kind |-> "Invalid JSON pointer"]}
        ELSE {}

RECURSIVE SortByOffset(_)
SortByOffset(S) ==
    IF S = {} THEN <<>>
    ELSE LET first == CHOOSE x \in S : \A y \in S : x.offset <= y.offset
         IN  <<first>> \o SortByOffset(S \ {first})

\* the findings claimed for the references of the text of key that lie before
\* offset limit, in document order
ClaimedFindings(document, key, fs, limit) ==
    SortByOffset(UNION {ClaimedFinding(document, NodeAt(parseTree(key), p), fs) :
                          p \in {q \in RefValuePaths(key) :
                                    NodeAt(parseTree(key), q).offset < limit}})

\* the value node whose load the task awaits
AwaitedNode(task) ==
    NodeAt(parseTree(task.root), Append(walkOrder(task.root)[task.pos], 2))

LatestResult(d) ==
    ClaimedFindings(d, text[d], text, parseTree(text[d]).length + 1)

\* C2 (as claimed): once the events on one document have stopped and every
\* scan has completed, the stored finding list is the scan result of the
\* document's latest text.
C2_ReflectsLatestEdit ==
    \A d \in Docs :
        /\ edited = {d}
        /\ d \in tracked
        /\ rejected = {}
        /\ \A s \in Slots : ~scans[s].active
        => Kinds(diagnostics[d]) = LatestResult(d)

\* C3 (as claimed): a document that is closed, and not opened again, has no
\* findings in the collection.
C3_ClearedWhenClosed ==
    \A d \in Docs : d \notin tracked => diagnostics[d] = <<>>

\* C4 (as claimed): the scanner never throws: no validateDocument call ends
\* with an exception, whatever the locate, load and navigate steps return.
C4_ScannerNeverThrows == rejected = {}

ActiveScans == Cardinality({s \in Slots : scans[s].active})

\* C9: a scan of document D changes the collection only in the step in which
\* it completes, and only D's entry; a step that leaves a scan suspended, or
\* a lookup, changes no entry; a close changes only the closed entry.
C9_WritesOnlyAtCompletion ==
    [][\A p \in Paths :
          diagnostics'[p] # diagnostics[p] =>
              /\ lastOp'.doc = p
              /\ \/ lastOp'.kind = "close"
                 \/ /\ lastOp'.kind \in {"open", "change"}
                    /\ lastOp'.completed
                    /\ ActiveScans' = ActiveScans
                 \/ /\ lastOp'.kind = "load"
                    /\ lastOp'.completed
                    /\ ActiveScans' = ActiveScans - 1]_vars

\* C9 witness: the completion of a load has left a scan suspended at its next
\* load, holding a finding, while the collection shows none for its document
C9_Witness ==
    /\ lastOp.kind = "load"
    /\ ~lastOp.completed
    /\ \E s \in Slots :
          /\ scans[s].active
          /\ scans[s].doc = lastOp.doc
          /\ Len(scans[s].diags) > 0
          /\ diagnostics[scans[s].doc] = <<>>

(***************************************************************************)
(* Properties of the lookup (specification SpecLookup).                    *)
(***************************************************************************)
\* the string nodes of the text of key that hold the cursor offset
StringsAt(key, offset) ==
    {p \in NodePaths(parseTree(key)) :
        /\ NodeAt(parseTree(key), p).type = "string"
        /\ contains(NodeAt(parseTree(key), p), offset, TRUE)}

\* the node at p is the value of a `$ref` property
IsRefValue(key, p) ==
    /\ Len(p) >= 1
    /\ p[Len(p)] = 2
    /\ NodeAt(parseTree(key), SubSeq(p, 1, Len(p) - 1)).type = "property"
    /\ NodeAt(parseTree(key), Append(SubSeq(p, 1, Len(p) - 1), 1)).value = "$ref"

\* C5 (as claimed): a lookup whose cursor lies in a string node that is not
\* the value of a `$ref` property (a key, the key `$ref` itself, another
\* property's value, an array element) returns no result.
C5_OnlyRefValuesResolve ==
    /\ lookup.pc = "done"
    /\ \E p \in StringsAt(text[lookup.doc], lookup.offset) :
          ~IsRefValue(text[lookup.doc], p)
    => lookup.result.kind # "resolved"

\* the `$ref` values with a non-blank string that hold the cursor of the lookup
CursorRefs ==
    IF lookup.pc = "done"
    THEN StringsAt(text[lookup.doc], lookup.offset)
         \cap RefValuePaths(text[lookup.doc])
    ELSE {}

\* what the scan does with the reference at p of the looked-up document
ScanOf(p) ==
    validateReference(lookup.doc, NodeAt(parseTree(text[lookup.doc]), p), text)

\* the reference at p has no pointer part and its target loads without a
\* parse tree
EmptyPointerNoTree(p) ==
    LET valueNode == NodeAt(parseTree(text[lookup.doc]), p)
        located   == resolveUri(lookup.doc, filePartOf(valueNode.value))
    IN  /\ pointerPartOf(valueNode.value) = ""
        /\ located.kind = "uri"
        /\ openTextDocument(text, located) # Missing
        /\ parseTree(openTextDocument(text, located)).type = "undefined"

C6_PointerRoundTrip ==
    ptr.pc = "decoded" => ptr.decoded = ptr.path

(***************************************************************************)
(* Properties of pointer resolution (specification SpecNavigate).          *)
(***************************************************************************)
\* C7 (as claimed): a pointer whose tokens each name an existing key of the
\* current object or an in-range index of the current array resolves to the
\* designated value node: the scan records no finding and the lookup returns
\* that node, whatever the keys are.
C7_ResolvesDesignatedNode ==
    nav.pc = "resolved" =>
        /\ nav.target = Found(nav.at)
        /\ nav.findings = <<>>
        /\ nav.result.kind = "resolved"
        /\ nav.result.targetOffset = NodeAt(parseTree(nav.doc), nav.at).offset
        /\ nav.result.targetLength = NodeAt(parseTree(nav.doc), nav.at).length

(***************************************************************************)
(* Properties of the locator (specification SpecLocate).                   *)
(***************************************************************************)
\* the scheme written in a file part of the `scheme://` form
SchemeOf(filePart) == slice(filePart, 0, indexOf(filePart, ":"))

\* C8 (as claimed): the locator's result follows the form of the file part:
\* the base document for the empty one; for `scheme://` the parsed URI when
\* the scheme is `file` and Unresolvable otherwise (a malformed URI
\* included); a file URI for an absolute, drive-letter or relative path.
C8_ResultFollowsForm ==
    loc.pc = "located" =>
        IF loc.filePart = "" THEN loc.result = UriFile(loc.base)
        ELSE IF SchemePattern(loc.filePart)
        THEN /\ loc.result.kind \in {"uri", "undefined"}
             /\ loc.result.kind = "uri" => loc.result.scheme = "file"
             /\ SchemeOf(loc.filePart) # "file" => loc.result.kind = "undefined"
        ELSE /\ loc.result.kind = "uri"
             /\ loc.result.scheme = "file"

====
